---------------------------- MODULE Spec2Model ----------------------------
(***************************************************************************)
(* unigaz: languages and writing systems (src/unigaz/writing.py).          *)
(*                                                                         *)
(* Python strings are modelled as sequences of one-character strings, so   *)
(* that case folding, splitting, joining and transliteration are computed  *)
(* character by character.  Python's None and the bound method object      *)
(* str.format are one-element sequences holding a token that is no         *)
(* character.                                                              *)
(***************************************************************************)
EXTENDS Integers, Sequences, FiniteSets, TLC

VARIABLES
  op,                   \* the function called: "classify", "codify",
                        \* "check_script", "_grok_dict_names", "_grok_dict"
  s,                    \* the text argument of classify and check_script
  language_code,        \* the language_code argument
  script_code,          \* the script_code argument
  pc,                   \* "call", then "return" or "raise"
  err,                  \* the name of the exception raised, or ""
  code,                 \* the tag codify returned, or the script code
                        \* check_script returned
  signals,              \* what the language detectors answered, if consulted
  attested,             \* classify's result tuple
  romanized,
  language_code_final,
  script_code_final,
  input,                \* the importer's input dict
  source,               \* the importer's source argument
  groked,               \* what the importer returned
  description_signals,  \* the detectors' answers for the description
  history,              \* the method calls made on an Index, a Local or a
                        \* Manager so far
  raw_index,            \* Index.raw_index: key -> set of values
  cooked_index,         \* Index.cooked_index: cooked key -> set of values
  reverse,              \* Index.reverse: value -> set of keys
  content,              \* Local._content: id -> object
  local                 \* Manager.local

args == <<op, s, language_code, script_code>>

result == <<attested, romanized, language_code_final, script_code_final>>

importer == <<input, source, groked, description_signals>>

index == <<raw_index, cooked_index, reverse>>

gazetteer == <<history, raw_index, cooked_index, reverse, content, local>>

vars == <<op, s, language_code, script_code, pc, err, code, signals,
          attested, romanized, language_code_final, script_code_final,
          input, source, groked, description_signals,
          history, raw_index, cooked_index, reverse, content, local>>

---------------------------------------------------------------------------
(* Python values *)

None == <<"<None>">>

Truthy(x) == x # None /\ x # <<>>

---------------------------------------------------------------------------
(* str methods *)

LowerLetters ==
  <<"a","b","c","d","e","f","g","h","i","j","k","l","m",
    "n","o","p","q","r","s","t","u","v","w","x","y","z">>

UpperLetters ==
  <<"A","B","C","D","E","F","G","H","I","J","K","L","M",
    "N","O","P","Q","R","S","T","U","V","W","X","Y","Z">>

LowerOf ==
  [c \in {UpperLetters[i] : i \in 1..26} |->
     LowerLetters[CHOOSE i \in 1..26 : UpperLetters[i] = c]]

UpperOf ==
  [c \in {LowerLetters[i] : i \in 1..26} |->
     UpperLetters[CHOOSE i \in 1..26 : LowerLetters[i] = c]]

(* str.lower() and str.upper() of one character *)
CharLower(c) == IF c \in DOMAIN LowerOf THEN LowerOf[c] ELSE c

CharUpper(c) == IF c \in DOMAIN UpperOf THEN UpperOf[c] ELSE c

StrLower(x) == [i \in 1..Len(x) |-> CharLower(x[i])]

StrUpper(x) == [i \in 1..Len(x) |-> CharUpper(x[i])]

StrCapitalize(x) ==
  [i \in 1..Len(x) |-> IF i = 1 THEN CharUpper(x[i]) ELSE CharLower(x[i])]

RECURSIVE StrSplit(_, _)
StrSplit(x, sep) ==
  IF \A i \in 1..Len(x) : x[i] # sep
  THEN <<x>>
  ELSE LET k == CHOOSE i \in 1..Len(x) :
                  x[i] = sep /\ \A j \in 1..(i-1) : x[j] # sep
       IN <<SubSeq(x, 1, k-1)>> \o StrSplit(SubSeq(x, k+1, Len(x)), sep)

RECURSIVE StrJoin(_, _)
StrJoin(parts, sep) ==
  IF parts = <<>> THEN <<>>
  ELSE IF Len(parts) = 1 THEN parts[1]
  ELSE parts[1] \o sep \o StrJoin(Tail(parts), sep)

---------------------------------------------------------------------------
(* language and script codes used by the calls below *)

und == <<"u","n","d">>
en == <<"e","n">>
EN == <<"E","N">>
ru == <<"r","u">>
uk == <<"u","k">>
zh == <<"z","h">>
xx == <<"x","x">>
Latn == <<"L","a","t","n">>
latn == <<"l","a","t","n">>
Cyrl == <<"C","y","r","l">>
Hani == <<"H","a","n","i">>
Hans == <<"H","a","n","s">>
Hant == <<"H","a","n","t">>
cmn == <<"c","m","n">>
abcd == <<"a","b","c","d">>    \* a script code the registry does not hold
Hyphen == <<"-">>

---------------------------------------------------------------------------
(* language_tags: the IANA subtag registry, restricted to the subtags the  *)
(* model uses.  A language record maps to its Suppress-Script or to None.  *)

SuppressScript ==
  (und :> None) @@ (en :> latn) @@ (ru :> <<"c","y","r","l">>)
  @@ (uk :> <<"c","y","r","l">>) @@ (zh :> None) @@ (cmn :> None)

(* tags.language(subtag): the language Subtag, or None *)
tags_language(subtag) ==
  IF StrLower(subtag) \in DOMAIN SuppressScript THEN StrLower(subtag) ELSE None

(* Subtag.format of a language subtag *)
LanguageSubtag_format(subtag) == subtag

(* Subtag.script: the Suppress-Script as a script Subtag, or None *)
Subtag_script(subtag) == SuppressScript[subtag]

(* Subtag.format of a script subtag *)
ScriptSubtag_format(subtag) == StrCapitalize(subtag)

RECURSIVE TagFormatRest(_, _, _)
TagFormatRest(subtags, i, private_use) ==
  IF i > Len(subtags) THEN <<>>
  ELSE LET subtag == subtags[i]
           pu == Len(subtags[i-1]) = 1 \/ private_use
           f == IF pu THEN subtag
                ELSE IF Len(subtag) = 2 THEN StrUpper(subtag)
                ELSE IF Len(subtag) = 4 THEN StrCapitalize(subtag)
                ELSE subtag
       IN Hyphen \o f \o TagFormatRest(subtags, i+1, pu)

(* tags.tag(tag).format: RFC 5646 section 2.1.1 casing *)
tags_tag_format(tag) ==
  LET subtags == StrSplit(StrLower(tag), "-")
  IN IF Len(subtags) = 1 THEN subtags[1]
     ELSE subtags[1] \o TagFormatRest(subtags, 2, FALSE)

---------------------------------------------------------------------------
(* codify, writing.py lines 52-69.  The outcome is a record: raised is the *)
(* exception's name ("" for a normal return), value the returned tag.      *)

Returned(v) == [raised |-> "", value |-> v]
Raised(e) == [raised |-> e, value |-> None]

(* a codify that knows no default language *)
codify_lc_no_default(lc_in) == IF Truthy(lc_in) THEN lc_in ELSE <<>>

(* writing.py lines 53-56 *)
codify_lc(lc_in) == IF Truthy(lc_in) THEN lc_in ELSE und

codify(lc_in, sc_in) ==
  LET lc == codify_lc(lc_in)
  IN IF Truthy(sc_in)
     THEN IF lc = und
          THEN Returned(tags_tag_format(lc \o Hyphen \o sc_in))
          ELSE IF tags_language(lc) = None \/ Subtag_script(tags_language(lc)) = None
               THEN Raised("AttributeError")
               ELSE IF ScriptSubtag_format(Subtag_script(tags_language(lc))) = sc_in
                    THEN Returned(tags_tag_format(lc))
                    ELSE Returned(tags_tag_format(lc \o Hyphen \o sc_in))
     ELSE Returned(tags_tag_format(lc))

---------------------------------------------------------------------------
(* characters of the texts.  Non-ASCII characters are named by code point. *)

HanChar == "U+72D7"         \* a Han ideograph
CyrChar == "U+0434"         \* CYRILLIC SMALL LETTER DE
CombAcute == "U+0301"       \* COMBINING ACUTE ACCENT
OAcute == "U+00F3"          \* LATIN SMALL LETTER O WITH ACUTE
PinyinO3 == "U+01D2"        \* LATIN SMALL LETTER O WITH CARON

(* Unicode Script property of the characters texts are made of *)
Common == <<"C","o","m","m","o","n">>

Inherited == <<"I","n","h","e","r","i","t","e","d">>

CharScript(c) ==
  IF c = HanChar THEN Hani
  ELSE IF c = CyrChar THEN Cyrl
  ELSE IF c = CombAcute THEN Inherited
  ELSE IF c \in DOMAIN LowerOf \/ c \in DOMAIN UpperOf \/ c \in {OAcute, PinyinO3}
  THEN Latn
  ELSE Common

IsSpace(c) == c = " "

Digits == {"0","1","2","3","4","5","6","7","8","9"}

IsAsciiAlnum(c) == c \in DOMAIN LowerOf \/ c \in DOMAIN UpperOf \/ c \in Digits

IsLetter(c) == CharScript(c) \in {Latn, Cyrl, Hani}

(* maximal runs of the positions where mask holds *)
RECURSIVE RunsMask(_, _, _)
RunsMask(x, mask, i) ==
  IF i > Len(x) THEN <<>>
  ELSE IF ~mask[i] THEN RunsMask(x, mask, i+1)
  ELSE LET j == CHOOSE k \in i..Len(x) :
                  /\ \A m \in i..k : mask[m]
                  /\ (k = Len(x) \/ ~mask[k+1])
       IN <<SubSeq(x, i, j)>> \o RunsMask(x, mask, j+1)

(* str.split(): the maximal runs of non-whitespace characters *)
split(x) == RunsMask(x, [i \in 1..Len(x) |-> ~IsSpace(x[i])], 1)

RECURSIVE Flatten(_)
Flatten(parts) ==
  IF parts = <<>> THEN <<>> ELSE Head(parts) \o Flatten(Tail(parts))

MapChars(x, F(_)) == Flatten([i \in 1..Len(x) |-> F(x[i])])

(* textnorm.normalize_space: runs of whitespace collapsed, ends trimmed *)
normalize_space(x) == StrJoin(split(x), <<" ">>)

(* textnorm.normalize_unicode (NFC): of the characters of the model, only  *)
(* "o" followed by the combining acute accent composes                     *)
RECURSIVE normalize_unicode(_)
normalize_unicode(x) ==
  IF Len(x) < 2 THEN x
  ELSE IF x[1] = "o" /\ x[2] = CombAcute
  THEN <<OAcute>> \o normalize_unicode(SubSeq(x, 3, Len(x)))
  ELSE <<x[1]>> \o normalize_unicode(Tail(x))

norm(x) == normalize_space(normalize_unicode(x))

---------------------------------------------------------------------------
(* check_script, writing.py lines 26-44 *)

Arab == <<"A","r","a","b">>
Grek == <<"G","r","e","k">>

(* unigaz/script_codes.py: the ordered table of script codes *)
REGEX_SCRIPT_CODES == <<Latn, Cyrl, Arab, Hani, Grek>>

(* a pattern that is searched for, not matched against the whole string *)
rx_match_anywhere(script, x) ==
  /\ Len(x) >= 1
  /\ \E i \in 1..Len(x) :
        IsSpace(x[i]) \/ CharScript(x[i]) = Common \/ CharScript(x[i]) = script

(* a pattern that accepts the empty string: * in place of + *)
rx_match_star(script, x) ==
  \A i \in 1..Len(x) :
     IsSpace(x[i]) \/ CharScript(x[i]) = Common \/ CharScript(x[i]) = script

(* a pattern without the common characters *)
rx_match_script_only(script, x) ==
  /\ Len(x) >= 1
  /\ \A i \in 1..Len(x) : IsSpace(x[i]) \/ CharScript(x[i]) = script

(* rxx_scripts[code].match(x): ^[\s\p{Common}\p{code}]+$ *)
rx_match(script, x) ==
  /\ Len(x) >= 1
  /\ \A i \in 1..Len(x) :
        IsSpace(x[i]) \/ CharScript(x[i]) = Common \/ CharScript(x[i]) = script

(* the loop of check_script from table entry k on *)
RECURSIVE check_script_from(_, _)
check_script_from(x, k) ==
  IF k > Len(REGEX_SCRIPT_CODES) THEN None
  ELSE IF rx_match(REGEX_SCRIPT_CODES[k], x) THEN REGEX_SCRIPT_CODES[k]
  ELSE check_script_from(x, k+1)

check_script(x) == check_script_from(x, 1)

---------------------------------------------------------------------------
(* transliteration libraries, character by character *)

(* unidecode, as slugify applies it *)
unidecode_char(c) ==
  IF c = HanChar THEN <<"G","o","u"," ">>
  ELSE IF c = CyrChar THEN <<"d">>
  ELSE IF c = OAcute THEN <<"o">>
  ELSE <<c>>

(* slugify(v, separator=" ", lowercase=False): the ASCII transliteration   *)
(* with every run of characters outside [-a-zA-Z0-9] made one separator    *)
(* and the ends stripped                                                   *)
slugify(x) ==
  LET ascii == MapChars(x, unidecode_char)
  IN StrJoin(RunsMask(ascii, [i \in 1..Len(ascii) |-> IsAsciiAlnum(ascii[i])], 1),
             <<" ">>)

(* transliterate.get_available_language_codes() *)
translit_codes ==
  {<<"e","l">>, <<"h","y">>, <<"k","a">>, <<"l","1">>, <<"m","k">>,
   <<"m","n">>, ru, <<"s","r">>, uk, <<"b","g">>}

translit_char(c) == IF c = CyrChar THEN <<"d">> ELSE <<c>>

(* transliterate.translit(v, language, reversed=True) *)
translit_reversed(x, lang) == MapChars(x, translit_char)

(* cyrtranslit.supported() *)
cyrtranslit_supported ==
  {<<"b","g">>, <<"m","e">>, <<"m","k">>, <<"m","n">>, ru, <<"s","r">>,
   <<"t","j">>, <<"u","a">>}

cyrtranslit_char(c) == IF c = CyrChar THEN <<"d">> ELSE <<c>>

(* cyrtranslit.to_latin(v, language) *)
cyrtranslit_to_latin(x, lang) == MapChars(x, cyrtranslit_char)

(* aaransia.get_alphabets_codes(), among the languages of the registry above *)
aaransia_codes == {en}

aaransia_char(c) == <<CharLower(c)>>

(* a transliteration that keeps the case *)
aaransia_transliterate_cased(x, lang) == x

(* aaransia.transliterate(v, language, "en") *)
aaransia_transliterate(x, lang) == MapChars(x, aaransia_char)

pinyin_char(c) == IF c = HanChar THEN <<"g", PinyinO3, "u">> ELSE <<c>>
pinyin_strip_char(c) == IF c = HanChar THEN <<"g","o","u">> ELSE <<c>>
pinyin_numerical_char(c) == IF c = HanChar THEN <<"g","o","u","3">> ELSE <<c>>

(* pinyin.get(v) *)
pinyin_get(x) == MapChars(x, pinyin_char)

(* pinyin.get(v, format="strip", delimiter=" ") *)
pinyin_get_strip(x) ==
  StrJoin([i \in 1..Len(x) |-> pinyin_strip_char(x[i])], <<" ">>)

(* pinyin.get(v, format="numerical") *)
pinyin_get_numerical(x) == MapChars(x, pinyin_numerical_char)

---------------------------------------------------------------------------
(* the language detectors: langid.classify, langdetect.detect and          *)
(* ftlangdetect.detect.  What they answer for a text is not determined by  *)
(* writing.py: a signal record is one possible answer of the three.        *)

threshold == 50           \* writing.py line 81, in hundredths

MinTokens == 5            \* writing.py line 80

NotConsulted == [langid_code |-> None, langid_prob |-> 0,
                 langdetect_code |-> None, ft_code |-> None, ft_prob |-> 0]

(* langdetect.detect raises LangDetectException ("No features in text")    *)
(* for a text without a single letter                                      *)
HasFeatures(v) == \E i \in 1..Len(v) : IsLetter(v[i])

BoundMethod == <<"<bound method str.format>">>

(* writing.py lines 77-104: language_tag is a str (an override), a Subtag  *)
(* or None                                                                 *)
LanguageTag(kind, tag) == [raised |-> "", kind |-> kind, tag |-> tag]
LanguageRaised(e) == [raised |-> e, kind |-> "None", tag |-> None]

SubtagOrNone(subtag) ==
  IF tags_language(subtag) = None THEN LanguageTag("None", None)
  ELSE LanguageTag("Subtag", tags_language(subtag))

accepted_codes(sig) ==
  (IF sig.langid_prob >= threshold THEN {sig.langid_code} ELSE {})
  \cup {sig.langdetect_code}
  \cup (IF sig.ft_prob >= threshold THEN {sig.ft_code} ELSE {})

(* detectors consulted for a text of any length *)
consults_signals_any_length(v, lc_in) == ~Truthy(lc_in) /\ Len(split(v)) >= 1

(* detectors consulted from one token less on *)
consults_signals_one_less(v, lc_in) ==
  ~Truthy(lc_in) /\ Len(split(v)) >= MinTokens - 1

(* writing.py lines 78-80 *)
consults_signals(v, lc_in) == ~Truthy(lc_in) /\ Len(split(v)) >= MinTokens

(* a conflict settled for langid's code *)
resolve_conflict_prefers_langid(sig) ==
  IF sig.ft_code # sig.langid_code
  THEN SubtagOrNone(sig.langid_code)
  ELSE LanguageRaised("RuntimeError")

(* a conflict that falls back to no language *)
resolve_conflict_fallback(sig) ==
  IF sig.ft_code # sig.langid_code
  THEN SubtagOrNone(sig.ft_code)
  ELSE LanguageTag("None", None)

(* writing.py lines 92-98 *)
resolve_conflict(sig) ==
  IF sig.ft_code # sig.langid_code
  THEN SubtagOrNone(sig.ft_code)
  ELSE LanguageRaised("RuntimeError")

(* writing.py lines 92-102 *)
resolve_codes(codes, sig) ==
  IF Cardinality(codes) > 1 THEN resolve_conflict(sig)
  ELSE IF Cardinality(codes) = 1 THEN SubtagOrNone(CHOOSE c \in codes : TRUE)
  ELSE LanguageTag("None", None)

classify_language(v, lc_in, sig) ==
  IF Truthy(lc_in)
  THEN IF tags_language(lc_in) = None
       THEN LanguageRaised("AttributeError")
       ELSE LanguageTag("str", LanguageSubtag_format(tags_language(lc_in)))
  ELSE IF consults_signals(v, lc_in)
  THEN IF ~HasFeatures(v)
       THEN LanguageRaised("LangDetectException")
       ELSE resolve_codes(accepted_codes(sig), sig)
  ELSE LanguageTag("None", None)

(* writing.py lines 105-108 *)
classify_language_code_final(lt) ==
  IF lt.kind = "Subtag" THEN LanguageSubtag_format(lt.tag)
  ELSE IF lt.kind = "str" THEN BoundMethod
  ELSE und

(* writing.py lines 111-128 *)
classify_script(x, sc_in, lt) ==
  LET script_code_from_string == check_script(x)
  IN IF Truthy(sc_in)
     THEN Returned(StrCapitalize(tags_tag_format(sc_in)))
     ELSE IF Truthy(script_code_from_string)
     THEN Returned(StrCapitalize(tags_tag_format(script_code_from_string)))
     ELSE IF lt.kind = "str"
     THEN Raised("AttributeError")
     ELSE IF lt.kind = "Subtag" /\ Subtag_script(lt.tag) # None
     THEN Returned(StrCapitalize(ScriptSubtag_format(Subtag_script(lt.tag))))
     ELSE Returned(und)

(* a correction that overrides every language of a Han text *)
language_correction_any_language(lang, script) ==
  IF script = Hani THEN zh ELSE lang

(* writing.py lines 130-132 *)
language_correction(lang, script) ==
  IF script = Hani /\ lang = und THEN zh ELSE lang

(* the rule with the comparison of the scripts inverted *)
classify_attested_inverted(v, lang, script) ==
  IF script # Latn
  THEN Returned(v)
  ELSE IF lang # und /\ script # und
  THEN IF lang = BoundMethod \/ tags_language(lang) = None
          \/ Subtag_script(tags_language(lang)) = None
       THEN Raised("AttributeError")
       ELSE IF ScriptSubtag_format(Subtag_script(tags_language(lang))) # script
            THEN Returned(v)
            ELSE Returned(None)
  ELSE Returned(None)

(* writing.py lines 134-140 *)
classify_attested(v, lang, script) ==
  IF script # Latn
  THEN Returned(v)
  ELSE IF lang # und /\ script # und
  THEN IF lang = BoundMethod \/ tags_language(lang) = None
          \/ Subtag_script(tags_language(lang)) = None
       THEN Raised("AttributeError")
       ELSE IF ScriptSubtag_format(Subtag_script(tags_language(lang))) = script
            THEN Returned(v)
            ELSE Returned(None)
  ELSE Returned(None)

pinyin_renderings(v) == {pinyin_get(v), pinyin_get_strip(v), pinyin_get_numerical(v)}

(* Pinyin for Chinese in whatever script *)
uses_pinyin_any_script(lang, script) == lang \in {cmn, zh}

(* Pinyin for every Han script code *)
uses_pinyin_hani(lang, script) ==
  lang \in {cmn, zh} /\ script \in {Hans, Hant, Hani}

(* writing.py line 151 *)
uses_pinyin(lang, script) ==
  lang \in {cmn, zh} /\ script \in {Hans, Hant}

(* the text itself added by the final script, not by the script detected   *)
(* on the input                                                            *)
classify_romanized_final_script(x, v, lang, script) ==
  {slugify(v)}
  \cup (IF script = Latn THEN {v} ELSE {})
  \cup (IF lang \in translit_codes THEN {translit_reversed(v, lang)} ELSE {})
  \cup (IF lang \in {cmn, zh} /\ script \in {Hans, Hant}
        THEN pinyin_renderings(v) ELSE {})
  \cup (IF script = Cyrl /\ lang \in cyrtranslit_supported
        THEN {cyrtranslit_to_latin(v, lang)} ELSE {})
  \cup (IF lang \in aaransia_codes THEN {aaransia_transliterate(v, lang)} ELSE {})

(* the schemes without the slug *)
classify_romanized_no_slug(x, v, lang, script) ==
  (IF check_script(x) = Latn THEN {v} ELSE {})
  \cup (IF lang \in translit_codes THEN {translit_reversed(v, lang)} ELSE {})
  \cup (IF uses_pinyin(lang, script) THEN pinyin_renderings(v) ELSE {})
  \cup (IF script = Cyrl /\ lang \in cyrtranslit_supported
        THEN {cyrtranslit_to_latin(v, lang)} ELSE {})
  \cup (IF lang \in aaransia_codes THEN {aaransia_transliterate(v, lang)} ELSE {})

(* the schemes without the two Cyrillic transliterations *)
classify_romanized_no_cyrillic(x, v, lang, script) ==
  {slugify(v)}
  \cup (IF check_script(x) = Latn THEN {v} ELSE {})
  \cup (IF uses_pinyin(lang, script) THEN pinyin_renderings(v) ELSE {})
  \cup (IF lang \in aaransia_codes THEN {aaransia_transliterate(v, lang)} ELSE {})

(* writing.py lines 142-158 *)
classify_romanized(x, v, lang, script) ==
  {slugify(v)}
  \cup (IF check_script(x) = Latn THEN {v} ELSE {})
  \cup (IF lang \in translit_codes THEN {translit_reversed(v, lang)} ELSE {})
  \cup (IF uses_pinyin(lang, script) THEN pinyin_renderings(v) ELSE {})
  \cup (IF script = Cyrl /\ lang \in cyrtranslit_supported
        THEN {cyrtranslit_to_latin(v, lang)} ELSE {})
  \cup (IF lang \in aaransia_codes THEN {aaransia_transliterate(v, lang)} ELSE {})

ClassifyRaised(e) ==
  [raised |-> e, attested |-> None, romanized |-> {},
   language |-> None, script |-> None]

(* classify, writing.py lines 72-160, in the order of its sections: every *)
(* section's value is computed once and handed on as an argument           *)
classify_return(x, v, lang, script, att) ==
  IF att.raised # "" THEN ClassifyRaised(att.raised)
  ELSE [raised |-> "", attested |-> att.value,
        romanized |-> classify_romanized(x, v, lang, script),
        language |-> lang, script |-> script]

classify_corrected(x, v, lang, script) ==
  classify_return(x, v, lang, script, classify_attested(v, lang, script))

classify_scripted(x, v, lt, st) ==
  IF st.raised # "" THEN ClassifyRaised(st.raised)
  ELSE classify_corrected(x, v,
         language_correction(classify_language_code_final(lt), st.value),
         st.value)

classify_tagged(x, v, lt, sc_in) ==
  IF lt.raised # "" THEN ClassifyRaised(lt.raised)
  ELSE classify_scripted(x, v, lt, classify_script(x, sc_in, lt))

classify_normed(x, v, lc_in, sc_in, sig) ==
  classify_tagged(x, v, classify_language(v, lc_in, sig), sc_in)

classify(x, lc_in, sc_in, sig) == classify_normed(x, norm(x), lc_in, sc_in, sig)

---------------------------------------------------------------------------
(* calls *)

MaxRepeat == 4

Vocabulary ==
  {<<>>, <<"T","o">>, <<"T","o",".">>, <<"o",CombAcute>>, <<".">>,
   <<HanChar>>, <<CyrChar>>}

Affix == {<<>>} \cup {<<w>> : w \in Vocabulary}

(* the texts: a word of the vocabulary up to MaxRepeat times, after at most *)
(* one word and before at most one word, a space between neighbours (an     *)
(* empty word makes a leading, trailing or double space)                    *)
Texts ==
  {StrJoin(pre \o [i \in 1..k |-> w] \o post, <<" ">>) :
     pre \in Affix, post \in Affix, w \in Vocabulary, k \in 0..MaxRepeat}

ClassifyLanguages == {None, en, zh}
ClassifyScripts == {None, Latn, Hans, abcd}

SignalCodes == {en, ru, zh}
SignalProbs == {49, 50}

Signals ==
  [langid_code : SignalCodes, langid_prob : SignalProbs,
   langdetect_code : SignalCodes, ft_code : SignalCodes, ft_prob : SignalProbs]

(* the answers the detectors can give for a call: none when they are not   *)
(* consulted, langid's alone when langdetect raises                        *)
SignalsOf(x, lc_in) ==
  IF ~consults_signals(norm(x), lc_in) THEN {NotConsulted}
  ELSE IF ~HasFeatures(norm(x))
  THEN {[NotConsulted EXCEPT !.langid_code = c, !.langid_prob = p] :
          c \in SignalCodes, p \in SignalProbs}
  ELSE Signals

----------------------------------------------------------------------------
(* the importer, src/unigaz/importer.py.  A dict is a function of its keys *)

foo == <<"f","o","o">>

(* a JSON value that is no string *)
ListValue == <<"<list>">>

IsStr(x) == x # ListValue /\ x # None

(* importer.py lines 55-67, from the i-th of the keys on *)
RECURSIVE grok_dict_field_from(_, _, _)
grok_dict_field_from(inp, keys, i) ==
  IF i > Len(keys) THEN Raised("KeyError")
  ELSE IF keys[i] \in DOMAIN inp
  THEN Returned(IF IsStr(inp[keys[i]]) THEN norm(inp[keys[i]]) ELSE inp[keys[i]])
  ELSE grok_dict_field_from(inp, keys, i + 1)

grok_dict_field_by_keys(inp, keys) == grok_dict_field_from(inp, keys, 1)

NotClassified ==
  [raised |-> "", attested |-> None, romanized |-> {},
   language |-> None, script |-> None]

NamesRaised(e, c) == [raised |-> e, value |-> None, classified |-> c, code |-> None]

(* a name record with the key "attested" for every attested that is not None *)
name_record_not_none(c, t) ==
  IF c.attested # None
  THEN [attested |-> c.attested, romanized |-> c.romanized, language |-> t.value]
  ELSE [romanized |-> c.romanized, language |-> t.value]

(* importer.py lines 122-126 *)
name_record(c, t) ==
  IF Truthy(c.attested)
  THEN [attested |-> c.attested, romanized |-> c.romanized, language |-> t.value]
  ELSE [romanized |-> c.romanized, language |-> t.value]

(* importer.py lines 120-127, for the one name v *)
grok_dict_name_codified(c, t) ==
  IF t.raised # "" THEN NamesRaised(t.raised, c)
  ELSE [raised |-> "", value |-> <<name_record(c, t)>>,
        classified |-> c, code |-> t.value]

grok_dict_name_classified(c) ==
  IF c.raised # "" THEN NamesRaised(c.raised, NotClassified)
  ELSE grok_dict_name_codified(c, codify(c.language, c.script))

(* importer.py lines 107-128 *)
grok_dict_names_of(results, sig) ==
  IF results.raised # "" THEN NamesRaised("ValueError", NotClassified)
  ELSE IF ~IsStr(results.value) THEN NamesRaised("NotImplementedError", NotClassified)
  ELSE grok_dict_name_classified(classify(results.value, None, None, sig))

grok_dict_names(inp, sig) ==
  grok_dict_names_of(grok_dict_field_by_keys(inp, <<"name">>), sig)

GrokRaised(e) == [raised |-> e, value |-> None]

(* importer.py lines 69-79 *)
grok_dict_description_codified(val, c, t) ==
  IF c.raised # "" THEN GrokRaised(c.raised)
  ELSE IF t.raised # "" THEN GrokRaised(t.raised)
  ELSE Returned([text |-> val, language |-> t.value])

grok_dict_description_classified(val, c) ==
  grok_dict_description_codified(val, c,
    IF c.raised # "" THEN Raised(c.raised) ELSE codify(c.language, c.script))

grok_dict_description_of(val, sig) ==
  IF val.raised # "" THEN GrokRaised("ValueError")
  ELSE grok_dict_description_classified(val.value,
         classify(val.value, None, None, sig))

DescriptionKeys == <<"description", "summary", "abstract">>

grok_dict_description(inp, sig) ==
  grok_dict_description_of(grok_dict_field_by_keys(inp, DescriptionKeys), sig)

(* importer.py lines 81-86 *)
grok_dict_id(inp) ==
  IF grok_dict_field_by_keys(inp, <<"id">>).raised # ""
  THEN GrokRaised("ValueError")
  ELSE grok_dict_field_by_keys(inp, <<"id">>)

LongitudeKeys == <<"lon", "long", "lng", "longitude", "x">>
LatitudeKeys == <<"lat", "latitude", "y">>

(* importer.py lines 88-105 *)
grok_dict_locations(inp, src) ==
  IF grok_dict_field_by_keys(inp, LongitudeKeys).raised # ""
     \/ grok_dict_field_by_keys(inp, LatitudeKeys).raised # ""
  THEN GrokRaised("ValueError")
  ELSE Returned(<<[geometry |->
                     <<"P","O","I","N","T","(">>
                     \o grok_dict_field_by_keys(inp, LongitudeKeys).value
                     \o <<" ">>
                     \o grok_dict_field_by_keys(inp, LatitudeKeys).value
                     \o <<")">>,
                   title |-> src \o <<" ">>
                     \o <<"c","o","o","r","d","i","n","a","t","e","s">>]>>)

(* importer.py lines 130-131 *)
grok_dict_references(inp) ==
  IF "references" \in DOMAIN inp THEN Returned(inp["references"])
  ELSE GrokRaised("KeyError")

(* importer.py lines 133-138 *)
grok_dict_title(inp) ==
  IF grok_dict_field_by_keys(inp, <<"title", "name">>).raised # ""
  THEN GrokRaised("ValueError")
  ELSE grok_dict_field_by_keys(inp, <<"title", "name">>)

(* importer.py lines 48-53: the parts in the order of the loop; the first  *)
(* part that raises ends the call                                          *)
grok_dict_parts(src, id, title, description, names, locations, references) ==
  IF id.raised # "" THEN GrokRaised(id.raised)
  ELSE IF title.raised # "" THEN GrokRaised(title.raised)
  ELSE IF description.raised # "" THEN GrokRaised(description.raised)
  ELSE IF names.raised # "" THEN GrokRaised(names.raised)
  ELSE IF locations.raised # "" THEN GrokRaised(locations.raised)
  ELSE IF references.raised # "" THEN GrokRaised(references.raised)
  ELSE Returned([source |-> src, feature_type |-> <<"P","l","a","c","e">>,
                 id |-> id.value, title |-> title.value,
                 description |-> description.value, names |-> names.value,
                 locations |-> locations.value, references |-> references.value])

grok_dict(inp, src, sigD, sigN) ==
  grok_dict_parts(src, grok_dict_id(inp), grok_dict_title(inp),
                  grok_dict_description(inp, sigD), grok_dict_names(inp, sigN),
                  grok_dict_locations(inp, src), grok_dict_references(inp))

(* the detectors' answers the importer is run with *)
ImporterSignals ==
  {sig \in Signals :
     /\ sig.langid_prob = threshold /\ sig.ft_prob = threshold
     /\ sig.langdetect_code \in {sig.langid_code, ru}
     /\ sig.langid_code \in {en, zh}}

ImporterSignalsOf(inp, keys) ==
  IF grok_dict_field_by_keys(inp, keys).raised # ""
     \/ ~IsStr(grok_dict_field_by_keys(inp, keys).value)
  THEN {NotConsulted}
  ELSE IF SignalsOf(grok_dict_field_by_keys(inp, keys).value, None) = Signals
  THEN ImporterSignals
  ELSE SignalsOf(grok_dict_field_by_keys(inp, keys).value, None)

NamesInputs ==
  {<<>>, [name |-> ListValue]} \cup {[name |-> t] : t \in Texts}

(* the input of the importer's test, with short texts *)
FullInput ==
  [id |-> <<"1">>,
   uri |-> <<"u","r","i">>,
   title |-> <<"T","o">>,
   name |-> <<"T","o"," ","T","o"," ","T","o"," ","T","o"," ","T","o">>,
   description |-> <<"T","o"," ","T","o"," ","T","o"," ","T","o"," ","T","o",".">>,
   references |-> ListValue,
   connects_to |-> ListValue,
   latitude |-> <<"4","1">>,
   longitude |-> <<"1","2">>]

(* the input with any of its keys missing *)
GrokInputs == {[k \in K |-> FullInput[k]] : K \in SUBSET DOMAIN FullInput}

----------------------------------------------------------------------------
(* the local gazetteer, src/unigaz/local.py.  A dict is a function of its  *)
(* keys; the loop over a set takes its members in an order the hashes      *)
(* decide, here the order of a sequence that lists every possible member   *)

DictPut(d, k, v) == [x \in DOMAIN d \cup {k} |-> IF x = k THEN v ELSE d[x]]

DictPop(d, k) == [x \in DOMAIN d \ {k} |-> d[x]]

DictGet(d, k) == IF k \in DOMAIN d THEN d[k] ELSE {}

(* Index._cook, local.py lines 117-122 (norm of local.py lines 42-43 is    *)
(* the norm of writing.py)                                                 *)
cook(key) == StrJoin(split(StrLower(norm(key))), <<"-">>)

(* an Index: its three dicts, and the exception a method ended with *)
IndexState(raw, cooked, rev, e) ==
  [raw_index |-> raw, cooked_index |-> cooked, reverse |-> rev, raised |-> e]

(* Index.add, local.py lines 57-77 *)
index_add(idx, key, value) ==
  IndexState(DictPut(idx.raw_index, key, DictGet(idx.raw_index, key) \cup {value}),
             DictPut(idx.cooked_index, cook(key),
                     DictGet(idx.cooked_index, cook(key)) \cup {value}),
             DictPut(idx.reverse, value,
                     DictGet(idx.reverse, value) \cup {key, cook(key)}),
             "")

(* local.py lines 94-95: reverse.pop(v) for the values, from the i-th of   *)
(* the order on; a value that is no key of reverse is a KeyError           *)
RECURSIVE index_pop_values(_, _, _, _)
index_pop_values(idx, values, vo, i) ==
  IF i > Len(vo) THEN idx
  ELSE IF vo[i] \notin values THEN index_pop_values(idx, values, vo, i + 1)
  ELSE IF vo[i] \notin DOMAIN idx.reverse THEN [idx EXCEPT !.raised = "KeyError"]
  ELSE index_pop_values([idx EXCEPT !.reverse = DictPop(idx.reverse, vo[i])],
                        values, vo, i + 1)

(* local.py lines 86-95 for one key k and one of the two indexes *)
index_delete_from(idx, k, idx_name, vo) ==
  IF idx.raised # "" \/ k \notin DOMAIN idx[idx_name] THEN idx
  ELSE index_pop_values([idx EXCEPT ![idx_name] = DictPop(idx[idx_name], k)],
                        idx[idx_name][k], vo, 1)

(* Index.delete, local.py lines 84-95 *)
index_delete(idx, key, vo) ==
  index_delete_from(
    index_delete_from(
      index_delete_from(
        index_delete_from(idx, key, "raw_index", vo),
        key, "cooked_index", vo),
      cook(key), "raw_index", vo),
    cook(key), "cooked_index", vo)

(* Index.get, local.py lines 97-110 *)
index_get(idx, key) ==
  IF key \in DOMAIN idx.raw_index THEN idx.raw_index[key]
  ELSE IF cook(key) \in DOMAIN idx.cooked_index THEN idx.cooked_index[cook(key)]
  ELSE {}

(* local.py lines 114-115 from the i-th key of the order on *)
RECURSIVE index_unindex_keys(_, _, _, _, _)
index_unindex_keys(idx, keys, ko, vo, i) ==
  IF i > Len(ko) \/ idx.raised # "" THEN idx
  ELSE IF ko[i] \notin keys THEN index_unindex_keys(idx, keys, ko, vo, i + 1)
  ELSE index_unindex_keys(index_delete(idx, ko[i], vo), keys, ko, vo, i + 1)

(* Index.unindex, local.py lines 112-115 *)
index_unindex(idx, value, ko, vo) ==
  IF value \notin DOMAIN idx.reverse THEN [idx EXCEPT !.raised = "KeyError"]
  ELSE index_unindex_keys(idx, idx.reverse[value], ko, vo, 1)

(* a Local: its _content and the title index of its catalog *)
LocalState(c, idx, e) ==
  [content |-> c, raw_index |-> idx.raw_index, cooked_index |-> idx.cooked_index,
   reverse |-> idx.reverse, raised |-> e]

(* Catalog.index for the one index "title", local.py lines 137-149 *)
catalog_index(idx, o) ==
  IF IsStr(o.title) THEN index_add(idx, o.title, o.id) ELSE idx

(* Local.add, local.py lines 870-872 *)
local_add(loc, o) ==
  LocalState(DictPut(loc.content, o.id, o), catalog_index(loc, o), "")

(* Local.delete, local.py lines 878-880: line 880 calls Catalog.unindex,   *)
(* which has the required parameter id (line 151), without an argument:    *)
(* a TypeError before the body of unindex runs                             *)
local_delete(loc, id) ==
  IF id \notin DOMAIN loc.content THEN [loc EXCEPT !.raised = "KeyError"]
  ELSE LocalState(DictPop(loc.content, id), loc, "TypeError")

(* Local.get_by_id, local.py lines 972-973 *)
get_by_id(loc, id) ==
  IF id \in DOMAIN loc.content THEN Returned(loc.content[id])
  ELSE Raised("KeyError")

(* Local.get_by_title, local.py lines 975-978 *)
get_by_title(loc, title) ==
  IF index_get(loc, title) \subseteq DOMAIN loc.content
  THEN Returned({loc.content[id] : id \in index_get(loc, title)})
  ELSE Raised("KeyError")

----------------------------------------------------------------------------
(* the manager, src/unigaz/manager.py.  Its state is the attribute local:  *)
(* None or a Local, here the Local's title and the number of its objects   *)

(* self.local = None, manager.py line 48 *)
NoLocal == [title |-> None, size |-> 0]

(* bool(self.local): Local has no __bool__ and no __len__ of its own (nor  *)
(* has Titled), and is taken to inherit none from unigaz.gazetteer's       *)
(* Gazetteer: every Local is true                                          *)
bool_local(l) == l # NoLocal

ManagerState(l, e) == [local |-> l, raised |-> e]

LocalGazetteer ==
  <<"L","o","c","a","l"," ","G","a","z","e","t","t","e","e","r">>

(* Local(title=name), local.py lines 861-868 *)
Local(name) ==
  [title |-> IF norm(name) = <<>> THEN LocalGazetteer ELSE norm(name),
   size |-> 0]

(* Manager.local_create, manager.py lines 216-221 *)
local_create(l, name) ==
  IF bool_local(l) THEN ManagerState(l, "NotImplementedError")
  ELSE ManagerState(Local(name), "")

(* Manager.local_load, manager.py lines 257-269: file is what the file     *)
(* data/gazetteers/<name>.json holds, NoLocal when there is no such file   *)
local_load(l, file) ==
  IF bool_local(l) THEN ManagerState(l, "RuntimeError")
  ELSE IF file = NoLocal THEN ManagerState(l, "FileNotFoundError")
  ELSE ManagerState(file, "")

(* a listing that answers without a local gazetteer *)
local_list_lenient(l) == ManagerState(l, "")

(* Manager.local_list, manager.py lines 251-255 *)
local_list(l) ==
  IF ~bool_local(l) THEN ManagerState(l, "RuntimeError") ELSE ManagerState(l, "")

(* Manager.local_merge, manager.py lines 271-275 *)
local_merge(l) ==
  IF ~bool_local(l) THEN ManagerState(l, "RuntimeError") ELSE ManagerState(l, "")

(* Manager.local_save, manager.py lines 277-290 *)
local_save(l) ==
  IF ~bool_local(l) THEN ManagerState(l, "RuntimeError") ELSE ManagerState(l, "")

(* Manager.local_accession, manager.py lines 63-136: created says whether  *)
(* Local.create_from made an object of the data (line 130) or raised, in   *)
(* which case the traceback is returned (lines 131-133)                    *)
local_accession(l, created) ==
  IF ~bool_local(l) THEN ManagerState(l, "RuntimeError")
  ELSE IF created THEN ManagerState([l EXCEPT !.size = @ + 1], "")
  ELSE ManagerState(l, "")

(* the names given to local_create and local_load *)
LocalNames == {<<>>, <<"A">>}

(* what a file of saved gazetteers can hold *)
SavedLocals == {NoLocal} \cup {[title |-> <<"A">>, size |-> n] : n \in 0..1}

MaxCalls == 3

IndexKeys == {<<"A">>, <<"a">>, <<"b">>}

Identifiers == {<<"1">>, <<"2">>}

(* the objects of a gazetteer: an id and a title *)
Objects == [id : Identifiers, title : {<<"A">>, <<"a">>, None}]

(* the orders a loop over a set of S's members can take *)
Orders(S) ==
  {f \in [1..Cardinality(S) -> S] :
     \A i, j \in 1..Cardinality(S) : i # j => f[i] # f[j]}

CodifyLanguages == {None, <<>>, und, en, EN, ru, zh, xx}
CodifyScripts == {None, <<>>, Latn, latn, Cyrl, Hani, Hans, abcd}

NoInput ==
  /\ input = <<>>
  /\ source = None

InitCodify ==
  /\ op = "codify"
  /\ s = None
  /\ language_code \in CodifyLanguages
  /\ script_code \in CodifyScripts
  /\ NoInput

InitClassify ==
  /\ op = "classify"
  /\ s \in Texts
  /\ language_code \in ClassifyLanguages
  /\ script_code \in ClassifyScripts
  /\ NoInput

InitCheckScript ==
  /\ op = "check_script"
  /\ s \in Texts
  /\ language_code = None
  /\ script_code = None
  /\ NoInput

NoArguments ==
  /\ s = None
  /\ language_code = None
  /\ script_code = None

NoCall ==
  /\ NoArguments
  /\ NoInput

InitIndex ==
  /\ op = "Index"
  /\ NoCall

InitLocal ==
  /\ op = "Local"
  /\ NoCall

InitManager ==
  /\ op = "Manager"
  /\ NoCall

InitGrokDict ==
  /\ op = "_grok_dict"
  /\ NoArguments
  /\ input \in GrokInputs
  /\ source = foo

InitGrokDictNames ==
  /\ op = "_grok_dict_names"
  /\ NoArguments
  /\ input \in NamesInputs
  /\ source = foo

Init ==
  /\ (InitManager \/ InitIndex \/ InitLocal \/ InitGrokDict \/ InitGrokDictNames \/ InitCheckScript \/ InitCodify \/ InitClassify)
  /\ pc = "call"
  /\ err = ""
  /\ code = None
  /\ signals = NotConsulted
  /\ attested = None
  /\ romanized = {}
  /\ language_code_final = None
  /\ script_code_final = None
  /\ groked = None
  /\ description_signals = NotConsulted
  /\ history = <<>>
  /\ raw_index = <<>>
  /\ cooked_index = <<>>
  /\ reverse = <<>>
  /\ content = <<>>
  /\ local = NoLocal

Codify ==
  /\ op = "codify"
  /\ pc = "call"
  /\ \E r \in {codify(language_code, script_code)} :
        /\ pc' = IF r.raised = "" THEN "return" ELSE "raise"
        /\ err' = r.raised
        /\ code' = r.value
  /\ UNCHANGED <<args, signals, result, importer, gazetteer>>

Classify ==
  /\ op = "classify"
  /\ pc = "call"
  /\ \E sig \in SignalsOf(s, language_code) :
     \E r \in {classify(s, language_code, script_code, sig)} :
          /\ signals' = sig
          /\ pc' = IF r.raised = "" THEN "return" ELSE "raise"
          /\ err' = r.raised
          /\ attested' = r.attested
          /\ romanized' = r.romanized
          /\ language_code_final' = r.language
          /\ script_code_final' = r.script
  /\ UNCHANGED <<args, code, importer, gazetteer>>

CheckScript ==
  /\ op = "check_script"
  /\ pc = "call"
  /\ pc' = "return"
  /\ code' = check_script(s)
  /\ UNCHANGED <<args, err, signals, result, importer, gazetteer>>

(* Importer._grok_dict_names: the locals of its loop (importer.py line    *)
(* 121) are kept in the variables of classify's result                     *)
GrokDictNames ==
  /\ op = "_grok_dict_names"
  /\ pc = "call"
  /\ \E sig \in ImporterSignalsOf(input, <<"name">>) :
     \E r \in {grok_dict_names(input, sig)} :
          /\ signals' = sig
          /\ pc' = IF r.raised = "" THEN "return" ELSE "raise"
          /\ err' = r.raised
          /\ groked' = r.value
          /\ attested' = r.classified.attested
          /\ romanized' = r.classified.romanized
          /\ language_code_final' = r.classified.language
          /\ script_code_final' = r.classified.script
          /\ code' = r.code
  /\ UNCHANGED <<args, input, source, description_signals, gazetteer>>

(* Importer._grok_dict *)
GrokDict ==
  /\ op = "_grok_dict"
  /\ pc = "call"
  /\ \E sigD \in ImporterSignalsOf(input, DescriptionKeys) :
     \E sigN \in ImporterSignalsOf(input, <<"name">>) :
     \E r \in {grok_dict(input, source, sigD, sigN)} :
          /\ description_signals' = sigD
          /\ signals' = sigN
          /\ pc' = IF r.raised = "" THEN "return" ELSE "raise"
          /\ err' = r.raised
          /\ groked' = r.value
  /\ UNCHANGED <<args, input, source, result, code, gazetteer>>

TheIndex == IndexState(raw_index, cooked_index, reverse, "")

writing == <<code, signals, attested, romanized, language_code_final,
             script_code_final>>

(* a method call on the Index has ended with r *)
IndexCalled(call, r) ==
  /\ history' = Append(history, call)
  /\ raw_index' = r.raw_index
  /\ cooked_index' = r.cooked_index
  /\ reverse' = r.reverse
  /\ pc' = IF r.raised = "" THEN "return" ELSE "raise"
  /\ err' = r.raised

(* Index.add(key, value) *)
IndexAdd ==
  /\ op = "Index"
  /\ Len(history) < MaxCalls
  /\ \E key \in IndexKeys, value \in Identifiers :
       IndexCalled([method |-> "add", key |-> key, value |-> value],
                   index_add(TheIndex, key, value))
  /\ UNCHANGED <<args, writing, importer, content, local>>

(* Index.unindex(value) *)
IndexUnindex ==
  /\ op = "Index"
  /\ Len(history) < MaxCalls
  /\ \E value \in Identifiers :
     \E ko \in Orders(IndexKeys \cup {cook(k) : k \in IndexKeys}) :
     \E vo \in Orders(Identifiers) :
       IndexCalled([method |-> "unindex", key |-> None, value |-> value],
                   index_unindex(TheIndex, value, ko, vo))
  /\ UNCHANGED <<args, writing, importer, content, local>>

TheLocal == LocalState(content, TheIndex, "")

(* a method call on the Local has ended with r *)
LocalCalled(call, r) ==
  /\ content' = r.content
  /\ IndexCalled(call, r)

(* Local.add(o) *)
LocalAdd ==
  /\ op = "Local"
  /\ Len(history) < MaxCalls
  /\ \E o \in Objects :
       LocalCalled([method |-> "add", key |-> o.title, value |-> o.id],
                   local_add(TheLocal, o))
  /\ UNCHANGED <<args, writing, importer, local>>

(* Local.delete(id) *)
LocalDelete ==
  /\ op = "Local"
  /\ Len(history) < MaxCalls
  /\ \E id \in Identifiers :
       LocalCalled([method |-> "delete", key |-> None, value |-> id],
                   local_delete(TheLocal, id))
  /\ UNCHANGED <<args, writing, importer, local>>

(* a command of the Manager has ended with r *)
ManagerCalled(method, r) ==
  /\ op = "Manager"
  /\ Len(history) < MaxCalls
  /\ history' = Append(history, [method |-> method, key |-> None, value |-> None])
  /\ local' = r.local
  /\ pc' = IF r.raised = "" THEN "return" ELSE "raise"
  /\ err' = r.raised
  /\ UNCHANGED <<args, writing, importer, index, content>>

LocalCreate ==
  \E name \in LocalNames : ManagerCalled("local_create", local_create(local, name))

LocalLoad ==
  \E file \in SavedLocals : ManagerCalled("local_load", local_load(local, file))

LocalList == ManagerCalled("local_list", local_list(local))

LocalMerge == ManagerCalled("local_merge", local_merge(local))

LocalSave == ManagerCalled("local_save", local_save(local))

LocalAccession ==
  \E created \in BOOLEAN :
    ManagerCalled("local_accession", local_accession(local, created))

Next ==
  \/ Codify \/ Classify \/ CheckScript \/ GrokDictNames \/ GrokDict
  \/ IndexAdd \/ IndexUnindex
  \/ LocalAdd \/ LocalDelete
  \/ LocalCreate \/ LocalLoad \/ LocalList \/ LocalMerge \/ LocalSave
  \/ LocalAccession

Spec == Init /\ [][Next]_vars

---------------------------------------------------------------------------
(* vocabulary of the properties *)

Called(f) == op = f /\ pc # "call"

NoOverrides == ~Truthy(language_code) /\ ~Truthy(script_code)

(* the default (Suppress-Script) script of a language, in canonical form,  *)
(* or None when the registry records none for it                           *)
DefaultScriptOf(lang) ==
  IF tags_language(lang) = None THEN None
  ELSE IF SuppressScript[tags_language(lang)] = None THEN None
  ELSE StrCapitalize(SuppressScript[tags_language(lang)])

(* a tag split back into its language and script subtags *)
ParseTag(tag) ==
  [language |-> StrSplit(tag, "-")[1],
   script |-> IF Len(StrSplit(tag, "-")) > 1 THEN StrSplit(tag, "-")[2] ELSE None]

(* the language classify resolved before the Han correction *)
LanguageBeforeCorrection ==
  classify_language_code_final(classify_language(norm(s), language_code, signals))

TokenCount == Len(split(norm(s)))

---------------------------------------------------------------------------
(* C1: for every registered language L other than "und" and every script S *)
(* given, codify(L, S) returns the bare canonical L when S is L's default  *)
(* script and the canonical L-S when it is not.                            *)
C1_CodifyOmitsDefaultScript ==
  (/\ Called("codify")
   /\ tags_language(language_code) \notin {None, und}
   /\ Truthy(script_code))
  => /\ pc = "return"
     /\ code = IF script_code = DefaultScriptOf(language_code)
               THEN StrLower(language_code)
               ELSE StrLower(language_code) \o Hyphen \o StrCapitalize(script_code)

(* C2: with no language given codify uses "und": it returns und-S, in      *)
(* canonical case, when a script S is given and the bare "und" when none   *)
(* is; with no script given it returns the bare canonical language code.   *)
C2_AbsentLanguageIsUnd ==
  Called("codify") =>
    /\ (~Truthy(language_code) /\ Truthy(script_code)
          => pc = "return" /\ code = und \o Hyphen \o StrCapitalize(script_code))
    /\ (~Truthy(language_code) /\ ~Truthy(script_code)
          => pc = "return" /\ code = und)
    /\ (Truthy(language_code) /\ ~Truthy(script_code)
          => pc = "return" /\ code = StrLower(language_code))

(* C2 witness: codify(None, "Latn") has returned "und-Latn" *)
C2_Witness ==
  /\ op = "codify" /\ pc = "return"
  /\ language_code = None /\ script_code = Latn
  /\ code = <<"u","n","d","-","L","a","t","n">>

(* C3: codify is idempotent: the tag it returned, split into language and  *)
(* script and codified again, is the same tag.                             *)
C3_CodifyIdempotent ==
  (op = "codify" /\ pc = "return")
  => codify(ParseTag(code).language, ParseTag(code).script) = Returned(code)

(* C4: every result of classify has a romanized set of at least one        *)
(* element, the slugified text among them.                                 *)
C4_RomanizedNotEmpty ==
  (op = "classify" /\ pc = "return")
  => Cardinality(romanized) >= 1 /\ slugify(norm(s)) \in romanized

(* C4 witness: the worst case, a text with letters whose only romanized    *)
(* form is its slug                                                        *)
C4_Witness ==
  /\ op = "classify" /\ pc = "return"
  /\ HasFeatures(norm(s))
  /\ romanized = {slugify(norm(s))}

(* C5 as stated: attested is None exactly when the script is Latin and the *)
(* language's canonical script is Latin; otherwise the normalized text.    *)
C5_AttestedNoneIffLatinNative ==
  (op = "classify" /\ pc = "return")
  => /\ attested = None
          <=> (script_code_final = Latn /\ DefaultScriptOf(language_code_final) = Latn)
     /\ attested # None => attested = norm(s)

(* C5 amended: attested is None exactly when the final script is Latin and *)
(* the language is "und" or has a canonical script other than Latin;       *)
(* otherwise it is the normalized text.                                    *)
C5_AttestedNoneIffLatinForeign ==
  (op = "classify" /\ pc = "return")
  => /\ attested = None
          <=> /\ script_code_final = Latn
              /\ (language_code_final = und
                  \/ DefaultScriptOf(language_code_final) # Latn)
     /\ attested # None => attested = norm(s)

(* C5 witness: Latin text of a language written in Cyrillic: no attested   *)
C5_Witness ==
  /\ op = "classify" /\ pc = "return"
  /\ script_code_final = Latn /\ language_code_final = ru
  /\ attested = None

(* the language and the script a call resolves to, from its arguments and *)
(* the detectors' answers: an override's canonical code, the code the      *)
(* signals resolve to, or "und"                                            *)
ResolvedLanguage ==
  IF classify_language(norm(s), language_code, signals).kind = "None" THEN und
  ELSE classify_language(norm(s), language_code, signals).tag

ResolvedScript ==
  IF Truthy(script_code) THEN StrCapitalize(script_code)
  ELSE IF check_script(s) # None THEN check_script(s)
  ELSE IF DefaultScriptOf(ResolvedLanguage) # None
  THEN DefaultScriptOf(ResolvedLanguage)
  ELSE und

(* C6: classify sets attested to the normalized text if the final script   *)
(* is not Latin, or if it is Latin, the language is not "und" and the      *)
(* language's canonical script is Latin; in every other case attested is   *)
(* None.  The claim is about every call whose language and script resolve. *)
C6_AttestedPolicy ==
  (/\ Called("classify")
   /\ classify_language(norm(s), language_code, signals).raised = "")
  => /\ pc = "return"
     /\ attested =
          IF ResolvedScript # Latn THEN norm(s)
          ELSE IF ResolvedLanguage # und
                  /\ DefaultScriptOf(ResolvedLanguage) = ResolvedScript
          THEN norm(s)
          ELSE None

(* "the language signals identify the text as English": English is the    *)
(* only code they put forward                                              *)
SignalsSayEnglish ==
  /\ ~Truthy(language_code)
  /\ TokenCount >= MinTokens
  /\ accepted_codes(signals) = {en}

(* a text without its trailing period *)
WithoutTrailingPeriod(x) ==
  IF Len(x) > 0 /\ x[Len(x)] = "." THEN SubSeq(x, 1, Len(x) - 1) ELSE x

(* a sentence of ASCII words, one space between them, ending in a period   *)
PlainSentence(x) ==
  /\ x = norm(x)
  /\ Len(x) > 1 /\ x[Len(x)] = "." /\ x[Len(x) - 1] # " "
  /\ \A i \in 1..(Len(x) - 1) : IsAsciiAlnum(x[i]) \/ x[i] = " "

(* C7 as stated: for a Latin-script text of at least 5 words that the      *)
(* signals identify as English, classify returns the normalized text as    *)
(* attested, "en", "Latn", and a romanized set holding the text, the text  *)
(* without its period and the lowercased text.                             *)
C7_EnglishSentence ==
  (/\ Called("classify")
   /\ ~Truthy(script_code)
   /\ check_script(s) = Latn
   /\ SignalsSayEnglish)
  => /\ pc = "return"
     /\ attested = norm(s)
     /\ language_code_final = en
     /\ script_code_final = Latn
     /\ {s, WithoutTrailingPeriod(s), StrLower(s)} \subseteq romanized

(* C7 amended: ... and a romanized set holding the normalized text, its    *)
(* slug (the runs of ASCII letters and digits of its transliteration,      *)
(* joined by single spaces) and the lowercased normalized text; the slug   *)
(* is the text without its trailing period when the text is a sentence of  *)
(* ASCII words.                                                            *)
C7_EnglishSentenceSlug ==
  (/\ Called("classify")
   /\ ~Truthy(script_code)
   /\ check_script(s) = Latn
   /\ SignalsSayEnglish)
  => /\ pc = "return"
     /\ attested = norm(s)
     /\ language_code_final = en
     /\ script_code_final = Latn
     /\ {norm(s), slugify(norm(s)), StrLower(norm(s))} \subseteq romanized
     /\ (PlainSentence(s) => WithoutTrailingPeriod(s) \in romanized)

(* C7 witness: an English sentence of ASCII words, returned with exactly   *)
(* the three romanized forms                                               *)
C7_Witness ==
  /\ op = "classify" /\ pc = "return"
  /\ ~Truthy(script_code) /\ check_script(s) = Latn /\ SignalsSayEnglish
  /\ PlainSentence(s)
  /\ romanized = {s, WithoutTrailingPeriod(s), StrLower(s)}
  /\ Cardinality(romanized) = 3

(* C8: when the final script is "Hani" and the language resolved to "und", *)
(* classify returns "zh"; a language that is not "und" is never changed    *)
(* and no other script triggers the correction.                            *)
C8_HanCorrection ==
  (op = "classify" /\ pc = "return")
  => /\ (script_code_final = Hani /\ LanguageBeforeCorrection = und
           => language_code_final = zh)
     /\ (LanguageBeforeCorrection # und
           => language_code_final = LanguageBeforeCorrection)
     /\ (script_code_final # Hani
           => language_code_final = LanguageBeforeCorrection)

(* C8 witness: a Han text with no language signal, returned as "zh" *)
C8_Witness ==
  /\ op = "classify" /\ pc = "return"
  /\ script_code_final = Hani
  /\ LanguageBeforeCorrection = und
  /\ language_code_final = zh

(* C9 as stated: for a Han-script text without overrides classify returns  *)
(* "zh", "Hani" and a romanized set holding the three Pinyin renderings.   *)
C9_HanPinyin ==
  (/\ Called("classify")
   /\ NoOverrides
   /\ check_script(s) = Hani)
  => /\ pc = "return"
     /\ language_code_final = zh
     /\ script_code_final = Hani
     /\ pinyin_renderings(norm(s)) \subseteq romanized

(* C9 amended: for a Han-script text without overrides every result of     *)
(* classify has script "Hani", has language "zh" unless the signals        *)
(* resolved another language, and holds no Pinyin rendering at all.        *)
C9_HanNoPinyin ==
  (/\ op = "classify" /\ pc = "return"
   /\ NoOverrides
   /\ check_script(s) = Hani)
  => /\ script_code_final = Hani
     /\ (LanguageBeforeCorrection \in {und, zh} => language_code_final = zh)
     /\ pinyin_renderings(norm(s)) \cap romanized = {}

(* C9 witness: a Han text long enough for the detectors, returned as "zh"  *)
C9_Witness ==
  /\ op = "classify" /\ pc = "return"
  /\ NoOverrides
  /\ check_script(s) = Hani
  /\ TokenCount >= MinTokens
  /\ language_code_final = zh

CyrillicResult ==
  /\ op = "classify" /\ pc = "return"
  /\ script_code_final = Cyrl
  /\ language_code_final \in cyrtranslit_supported

(* C11 as stated: for a Cyrillic-script text whose resolved language is in *)
(* the supported set, romanized holds the Cyrillic-to-Latin                *)
(* transliteration as an element distinct from the slug, so it has at      *)
(* least two elements.                                                     *)
C11_CyrillicDistinctFromSlug ==
  CyrillicResult
  => /\ cyrtranslit_to_latin(norm(s), language_code_final) \in romanized
     /\ cyrtranslit_to_latin(norm(s), language_code_final) # slugify(norm(s))
     /\ Cardinality(romanized) >= 2

(* C11 amended: romanized holds the Cyrillic-to-Latin transliteration, in   *)
(* which no Cyrillic letter is left, and the slug; the two are distinct    *)
(* elements only where the transliteration differs from the slug (it keeps *)
(* the punctuation the slug drops).                                        *)
C11_CyrillicTransliterated ==
  CyrillicResult
  => /\ {cyrtranslit_to_latin(norm(s), language_code_final), slugify(norm(s))}
          \subseteq romanized
     /\ \A i \in 1..Len(cyrtranslit_to_latin(norm(s), language_code_final)) :
           CharScript(cyrtranslit_to_latin(norm(s), language_code_final)[i]) # Cyrl

(* C11 witness: a Russian text with a period: transliteration and slug     *)
(* differ                                                                  *)
C11_Witness ==
  /\ CyrillicResult
  /\ check_script(s) = Cyrl
  /\ language_code_final = ru
  /\ cyrtranslit_to_latin(norm(s), ru) # slugify(norm(s))
  /\ Cardinality(romanized) = 2

(* the detectors were consulted and put forward two or more codes *)
ConflictReached ==
  /\ ~Truthy(language_code)
  /\ TokenCount >= MinTokens
  /\ HasFeatures(norm(s))
  /\ Cardinality(accepted_codes(signals)) >= 2

(* C12: when two or more codes are accepted and the fastText code differs  *)
(* from langid's code, classify resolves the language to the fastText      *)
(* code, and that is the language of every result it returns.              *)
C12_PrefersFastText ==
  (/\ Called("classify")
   /\ ConflictReached
   /\ signals.ft_code # signals.langid_code)
  => /\ err # "RuntimeError"
     /\ LanguageBeforeCorrection = signals.ft_code
     /\ (pc = "return" => language_code_final = signals.ft_code)

(* C12 witness: a Cyrillic text langid does not label "ru", returned as    *)
(* the "ru" of fastText                                                    *)
C12_Witness ==
  /\ op = "classify" /\ pc = "return"
  /\ ConflictReached
  /\ check_script(s) = Cyrl
  /\ signals.langid_code # ru /\ signals.langid_prob >= threshold
  /\ signals.ft_code = ru
  /\ language_code_final = ru

(* C13: when two or more codes are accepted and the fastText code equals   *)
(* langid's code, classify raises the language-conflict error to its       *)
(* caller: no result, partial or complete, and no fallback to "und".       *)
C13_ConflictRaises ==
  (/\ Called("classify")
   /\ ConflictReached
   /\ signals.ft_code = signals.langid_code)
  => /\ pc = "raise"
     /\ err = "RuntimeError"
     /\ result = <<None, {}, None, None>>

(* C13 witness: langdetect alone disagrees with langid and fastText *)
C13_Witness ==
  /\ op = "classify" /\ pc = "raise" /\ err = "RuntimeError"
  /\ signals.ft_code = signals.langid_code
  /\ signals.langdetect_code # signals.langid_code
  /\ check_script(s) = Cyrl

(* none of the three detectors put a code forward *)
NoUsableCode ==
  /\ ~Truthy(language_code)
  /\ TokenCount >= MinTokens
  /\ signals.langid_prob < threshold
  /\ signals.ft_prob < threshold
  /\ signals.langdetect_code = None

(* C14: when the text has at least 5 tokens and no detector puts a code    *)
(* forward, classify returns the language "und" instead of failing.        *)
C14_NoSignalIsUnd ==
  (Called("classify") /\ NoUsableCode)
  => /\ pc = "return"
     /\ language_code_final = und

(* C15: without a language override the detectors are consulted only for   *)
(* a normalized text of at least 5 tokens; for a shorter text none is      *)
(* consulted, classify returns, and the language is "und", or "zh" by the  *)
(* Han correction.                                                         *)
C15_ShortTextsSkipSignals ==
  Called("classify")
  => /\ (signals # NotConsulted
           => ~Truthy(language_code) /\ TokenCount >= MinTokens)
     /\ (~Truthy(language_code) /\ TokenCount < MinTokens
           => /\ signals = NotConsulted
              /\ pc = "return"
              /\ language_code_final =
                   IF script_code_final = Hani THEN zh ELSE und)

(* C15 witness: a text of four words, returned as "und" *)
C15_Witness ==
  /\ op = "classify" /\ pc = "return"
  /\ ~Truthy(language_code)
  /\ TokenCount = MinTokens - 1
  /\ HasFeatures(norm(s))
  /\ signals = NotConsulted
  /\ language_code_final = und

(* C16: the script classify returns is the script override if one is      *)
(* given, else the script check_script detects, else the default script of *)
(* the resolved language, else "und", in capitalized form.                 *)
C16_ScriptResolution ==
  (/\ Called("classify")
   /\ classify_language(norm(s), language_code, signals).raised = "")
  => /\ classify_script(s, script_code,
                        classify_language(norm(s), language_code, signals))
          = Returned(ResolvedScript)
     /\ (pc = "return" => script_code_final = ResolvedScript)

(* the script subtags of the registry, among the codes of the model *)
RegisteredScripts == {Latn, Cyrl, Arab, Hani, Grek, Hans, Hant}

UnrecognizedScript ==
  Truthy(script_code) /\ StrCapitalize(script_code) \notin RegisteredScripts

(* C17: a call of codify or classify with a script code that is not a      *)
(* recognized script fails: it returns no tag and no result.               *)
C17_UnrecognizedScriptFails ==
  (pc # "call" /\ UnrecognizedScript) => pc = "raise"

(* C18: but for the language conflict and an unrecognized script override, *)
(* codify and classify return for every text and every language and script *)
(* given.                                                                  *)
C18_NoOtherFailure ==
  (pc # "call" /\ ~UnrecognizedScript)
  => (pc = "return" \/ err = "RuntimeError")

(* the pattern of a script accepts a string: the string is not empty and  *)
(* each of its characters is whitespace, a common character or a character *)
(* of the script                                                           *)
Accepts(script, x) ==
  /\ x # <<>>
  /\ \A i \in 1..Len(x) : IsSpace(x[i]) \/ CharScript(x[i]) \in {Common, script}

(* the table entries that accept x and have no accepting entry before them *)
FirstAccepting(x) ==
  {k \in 1..Len(REGEX_SCRIPT_CODES) :
     /\ Accepts(REGEX_SCRIPT_CODES[k], x)
     /\ \A j \in 1..(k - 1) : ~Accepts(REGEX_SCRIPT_CODES[j], x)}

(* x holds characters of two scripts of the table *)
MixedScripts(x) ==
  \E i, j \in 1..Len(x) :
     /\ CharScript(x[i]) # CharScript(x[j])
     /\ \E k, m \in 1..Len(REGEX_SCRIPT_CODES) :
           /\ CharScript(x[i]) = REGEX_SCRIPT_CODES[k]
           /\ CharScript(x[j]) = REGEX_SCRIPT_CODES[m]

(* C19: check_script returns the first script of the table whose pattern   *)
(* accepts the whole string; one character outside a script disqualifies   *)
(* it, and None is returned when no script accepts the string, as for a    *)
(* string of mixed scripts.                                                *)
C19_FirstWholeStringMatch ==
  Called("check_script")
  => /\ pc = "return"
     /\ (FirstAccepting(s) = {} => code = None)
     /\ (\A k \in FirstAccepting(s) : code = REGEX_SCRIPT_CODES[k])
     /\ (MixedScripts(s) => code = None)

(* C19 witness: one Latin word among Han characters: no script *)
C19_Witness ==
  /\ op = "check_script" /\ pc = "return"
  /\ MixedScripts(s)
  /\ Len(split(s)) = MaxRepeat + 1
  /\ code = None

(* C20 as stated: a non-empty string made only of the characters one       *)
(* script accepts (its letters, whitespace, common characters) is given    *)
(* that script's code.                                                     *)
C20_OwnScriptReturned ==
  Called("check_script")
  => \A k \in 1..Len(REGEX_SCRIPT_CODES) :
        Accepts(REGEX_SCRIPT_CODES[k], s) => code = REGEX_SCRIPT_CODES[k]

(* C20 amended: ... and that holds at least one character of the script    *)
(* itself is given that script's code; a string of whitespace and common   *)
(* characters alone, which every script accepts, is given the code of the  *)
(* first script of the table.                                              *)
C20_OwnScriptReturnedForLetters ==
  Called("check_script")
  => /\ \A k \in 1..Len(REGEX_SCRIPT_CODES) :
          (/\ Accepts(REGEX_SCRIPT_CODES[k], s)
           /\ \E i \in 1..Len(s) : CharScript(s[i]) = REGEX_SCRIPT_CODES[k])
          => code = REGEX_SCRIPT_CODES[k]
     /\ ((s # <<>> /\ \A i \in 1..Len(s) : IsSpace(s[i]) \/ CharScript(s[i]) = Common)
          => code = REGEX_SCRIPT_CODES[1])

(* C20 witness: Han characters and a period, given "Hani" although three   *)
(* scripts come before it in the table                                     *)
C20_Witness ==
  /\ op = "check_script" /\ pc = "return"
  /\ \E i \in 1..Len(s) : s[i] = HanChar
  /\ \E i \in 1..Len(s) : s[i] = "."
  /\ code = Hani

(* C21 as stated: for the empty string check_script returns the first     *)
(* script code of the table, not None.                                     *)
C21_EmptyStringIsFirstScript ==
  (Called("check_script") /\ s = <<>>) => code = REGEX_SCRIPT_CODES[1]

(* C21 amended: for the empty string check_script returns None, as no      *)
(* pattern accepts a string without a character; a string of whitespace    *)
(* alone is accepted by the first pattern tested and given the first       *)
(* script code of the table.                                               *)
C21_EmptyStringIsNone ==
  Called("check_script")
  => /\ (s = <<>> => code = None)
     /\ ((s # <<>> /\ \A i \in 1..Len(s) : IsSpace(s[i]))
           => code = REGEX_SCRIPT_CODES[1])

(* C21 witness: check_script("") has returned None *)
C21_Witness ==
  /\ op = "check_script" /\ pc = "return"
  /\ s = <<>>
  /\ code = None

(* C22: the name record the importer builds for a name has "romanized"     *)
(* equal to classify's romanized set, "language" equal to codify of the    *)
(* language and script classify returned, and the key "attested", with     *)
(* classify's attested form, if and only if that form is not empty.        *)
C22_NameRecord ==
  (op = "_grok_dict_names" /\ pc = "return")
  => /\ Len(groked) = 1
     /\ LET c == classify(norm(input.name), None, None, signals)
        IN /\ c.raised = ""
           /\ <<attested, romanized, language_code_final, script_code_final>>
                = <<c.attested, c.romanized, c.language, c.script>>
     /\ DOMAIN groked[1] \subseteq {"attested", "romanized", "language"}
     /\ groked[1].romanized = romanized
     /\ groked[1].language = codify(language_code_final, script_code_final).value
     /\ ("attested" \in DOMAIN groked[1] <=> attested \notin {None, <<>>})
     /\ ("attested" \in DOMAIN groked[1] => groked[1].attested = attested)

(* C22 witness: a Cyrillic name, recorded with its attested form and the   *)
(* tag "und-Cyrl"                                                          *)
C22_Witness ==
  /\ op = "_grok_dict_names" /\ pc = "return"
  /\ input.name = <<CyrChar>>
  /\ groked[1].attested = <<CyrChar>>
  /\ groked[1].romanized = {<<"d">>}
  /\ groked[1].language = <<"u","n","d","-","C","y","r","l">>

(* C23: the record _grok_dict returns holds source, feature_type "Place", *)
(* id, title (from "title", else "name"), description, names, one          *)
(* location and references, and also the "uri" and "connects_to" of the    *)
(* input, unchanged.                                                       *)
C23_GrokDictRecord ==
  (op = "_grok_dict" /\ pc = "return")
  => /\ groked.source = source
     /\ groked.feature_type = <<"P","l","a","c","e">>
     /\ groked.id = input.id
     /\ groked.title = IF "title" \in DOMAIN input THEN input.title ELSE input.name
     /\ groked.description.text = input.description
     /\ Len(groked.names) = 1
     /\ Len(groked.locations) = 1
     /\ groked.locations[1].geometry = <<"P","O","I","N","T","(","1","2"," ","4","1",")">>
     /\ groked.locations[1].title = <<"f","o","o"," ","c","o","o","r","d","i","n","a","t","e","s">>
     /\ groked.references = input.references
     /\ \A k \in {"uri", "connects_to"} :
           k \in DOMAIN input => (k \in DOMAIN groked /\ groked[k] = input[k])

(* a text with a Han character: its three Pinyin renderings are the      *)
(* output of no other scheme                                               *)
HasHan(x) == \E i \in 1..Len(x) : x[i] = HanChar

(* C24: the romanization schemes add up: romanized always holds the slug,  *)
(* and whenever the script detected on the input is "Latn" it also holds   *)
(* the normalized text.                                                    *)
C24_SlugAndLatinText ==
  (op = "classify" /\ pc = "return")
  => /\ slugify(norm(s)) \in romanized
     /\ (check_script(s) = Latn => norm(s) \in romanized)

(* C24 witness: a Latin text that is not its own slug, classified under a  *)
(* script override, with both the slug and the text in romanized           *)
C24_Witness ==
  /\ op = "classify" /\ pc = "return"
  /\ check_script(s) = Latn /\ script_code_final = Hans
  /\ norm(s) # slugify(norm(s))
  /\ {norm(s), slugify(norm(s))} \subseteq romanized

(* C25: classify adds the three Pinyin renderings exactly when the         *)
(* language is "cmn" or "zh" and the final script is "Hans" or "Hant":     *)
(* then all three are in romanized, otherwise none of them is added (for a *)
(* text with a Han character none of them is in romanized).                *)
C25_PinyinExactly ==
  (op = "classify" /\ pc = "return")
  => IF language_code_final \in {cmn, zh} /\ script_code_final \in {Hans, Hant}
     THEN pinyin_renderings(norm(s)) \subseteq romanized
     ELSE /\ HasHan(norm(s)) => pinyin_renderings(norm(s)) \cap romanized = {}
          /\ romanized \subseteq
               {slugify(norm(s)), norm(s),
                translit_reversed(norm(s), language_code_final),
                cyrtranslit_to_latin(norm(s), language_code_final),
                aaransia_transliterate(norm(s), language_code_final)}

(* C25 witness: a Han text the detectors call Chinese, classified with the *)
(* script override "Hans": three Pinyin renderings next to the slug        *)
C25_Witness ==
  /\ op = "classify" /\ pc = "return"
  /\ HasHan(norm(s))
  /\ language_code_final = zh /\ script_code_final = Hans
  /\ Cardinality(pinyin_renderings(norm(s))) = 3
  /\ pinyin_renderings(norm(s)) \subseteq romanized

(* C26: without a language override and from five tokens on, a language    *)
(* classify returns from the signals is one of the accepted codes; a       *)
(* fastText code scored under the threshold is not accepted for its score. *)
C26_ReturnedLanguageAccepted ==
  (/\ op = "classify" /\ pc = "return"
   /\ ~Truthy(language_code)
   /\ TokenCount >= MinTokens
   /\ language_code_final # und)
  => language_code_final \in accepted_codes(signals)

(* C27: with a language override no detector is consulted, whatever the    *)
(* length of the text, the conflict error is not raised, and the language  *)
(* returned is the canonical form of the override.                         *)
C27_OverrideIsReturned ==
  (Called("classify") /\ Truthy(language_code))
  => /\ signals = NotConsulted
     /\ err # "RuntimeError"
     /\ (pc = "return" => language_code_final = StrLower(language_code))

(* the last call made *)
LastCall == history[Len(history)]

(* the (key, value) pairs added before the last call *)
AddedBefore ==
  {<<history[i].key, history[i].value>> :
     i \in {j \in 1..(Len(history) - 1) : history[j].method = "add"}}

(* the last call is the first unindex of the history, of a value added     *)
(* before                                                                  *)
FirstUnindexOfAdded ==
  /\ op = "Index" /\ history # <<>>
  /\ LastCall.method = "unindex"
  /\ \A j \in 1..(Len(history) - 1) : history[j].method = "add"
  /\ \E p \in AddedBefore : p[2] = LastCall.value

KeysOf(value) == {p[1] : p \in {q \in AddedBefore : q[2] = value}}

(* C28: after any sequence of adds, unindex of a value added before does   *)
(* not raise, afterwards get(k) holds that value for no key k, raw or      *)
(* cooked, and a value added only under other keys is still retrieved.     *)
C28_UnindexRemovesValue ==
  FirstUnindexOfAdded
  => /\ pc = "return"
     /\ \A k \in IndexKeys \cup {cook(k) : k \in IndexKeys} :
          LastCall.value \notin index_get(TheIndex, k)
     /\ \A p \in AddedBefore :
          (\A k \in KeysOf(LastCall.value) : cook(k) # cook(p[1]))
          => p[2] \in index_get(TheIndex, p[1])

(* the last call deletes, as the first delete of the history, an object   *)
(* that was added before                                                   *)
DeleteOfAdded ==
  /\ op = "Local" /\ history # <<>>
  /\ LastCall.method = "delete"
  /\ \A j \in 1..(Len(history) - 1) : history[j].method = "add"
  /\ \E j \in 1..(Len(history) - 1) : history[j].value = LastCall.value

(* the objects added before the last call, as add left them *)
RECURSIVE ContentAfter(_)
ContentAfter(n) ==
  IF n = 0 THEN <<>>
  ELSE DictPut(ContentAfter(n - 1), history[n].value,
               [id |-> history[n].value, title |-> history[n].key])

(* C29: Local.add(o) followed by Local.delete(o.id) ends without an error *)
(* and leaves the gazetteer consistent: neither get_by_id nor get_by_title *)
(* returns o, every other object is still returned by both, and the title  *)
(* index names no id that the content lacks.                               *)
C29_DeleteLeavesConsistent ==
  DeleteOfAdded
  => /\ pc = "return"
     /\ get_by_id(TheLocal, LastCall.value).raised = "KeyError"
     /\ \A t \in {<<"A">>, <<"a">>} :
          /\ get_by_title(TheLocal, t).raised = ""
          /\ \A o \in get_by_title(TheLocal, t).value : o.id # LastCall.value
     /\ \A id \in DOMAIN ContentAfter(Len(history) - 1) \ {LastCall.value} :
          /\ get_by_id(TheLocal, id) = Returned(ContentAfter(Len(history) - 1)[id])
          /\ IsStr(ContentAfter(Len(history) - 1)[id].title)
             => ContentAfter(Len(history) - 1)[id]
                  \in get_by_title(TheLocal, ContentAfter(Len(history) - 1)[id].title).value
     /\ \A k \in DOMAIN raw_index : raw_index[k] \subseteq DOMAIN content
     /\ \A k \in DOMAIN cooked_index : cooked_index[k] \subseteq DOMAIN content

(* the command a step of the Manager makes *)
Command == history'[Len(history')].method

(* C30: a Manager holds at most one local gazetteer over any sequence of   *)
(* commands: with one in place local_create and local_load raise and leave *)
(* it as it is, and no command puts another in its place; with none in     *)
(* place local_list, local_merge, local_save and local_accession raise     *)
(* RuntimeError and change nothing.                                        *)
C30_AtMostOneLocal ==
  [][op = "Manager"
     => /\ (local # NoLocal /\ Command \in {"local_create", "local_load"})
             => pc' = "raise" /\ local' = local
        /\ local # NoLocal => local'.title = local.title
        /\ (local = NoLocal
            /\ Command \in {"local_list", "local_merge", "local_save",
                            "local_accession"})
             => err' = "RuntimeError" /\ local' = local]_vars

(* C30 witness: local_create on a Manager that has a local gazetteer with  *)
(* an object in it has raised and left the gazetteer in place              *)
C30_Witness ==
  /\ op = "Manager" /\ Len(history) = 3
  /\ history[1].method = "local_create"
  /\ history[2].method = "local_accession"
  /\ history[3].method = "local_create"
  /\ pc = "raise" /\ err = "NotImplementedError"
  /\ local = [title |-> LocalGazetteer, size |-> 1]

=============================================================================
